---- MODULE Spec2Model ----
(***************************************************************************)
(* Collection<T> of src/spt/natv_collection.hpp: a fixed-size container    *)
(* that owns a heap buffer, with generator / map / zip construction, move, *)
(* destruction, get / set, reduce and the arithmetic overlay.              *)
(*                                                                         *)
(* T is double, as in src/test_cpp/test_cpp.cpp.  The values modelled are  *)
(* the integers of -VMax..VMax, on which + - * are exact; an operation     *)
(* whose result leaves that set is not taken (the guards ValuesOk).        *)
(***************************************************************************)
EXTENDS Integers, Sequences, FiniteSets, TLC

VARIABLES
    heap,     \* the free store: one entry per array handed out by new T[size]
    objs,     \* the Collection objects: _data, _size and their lifetime
    crashed,  \* the process was ended by a fault (null pointer dereference)
    last,     \* the last call made on the library and what it observed
    kern,     \* the frame of mandelbrot::get_count: arguments, x, y, i
    mandel,   \* the frame of main of mandelbrot_cpp: arguments, colors, exit
    png,      \* the PNGImage object of main and the sink behind it
    perf      \* main of perf_cpp: its random engine and what it last generated

vars == <<heap, objs, crashed, last, kern, mandel, png, perf>>

lib == <<heap, objs, crashed, last>>     \* what the Collection library works on
prog == <<kern, mandel, png, perf>>      \* what the programs work on

(* Bounds of the model. *)
MaxLen == 2      \* largest size passed to a constructor
MaxObjs == 3     \* Collection objects and buffers created in one run
VMax == 5        \* element values are the integers -VMax..VMax
MaxIters == 3    \* largest iteration budget max_iters
MaxCoord == 2    \* plane coordinates are the integers -MaxCoord..MaxCoord
MaxDim == 2      \* largest image width and height in pixels

NULL == 0        \* nullptr

Objs == 1..MaxObjs
Bufs == 1..MaxObjs
Vals == (0 - VMax)..VMax
Sizes == 0..MaxLen
Indices == 0..MaxLen            \* std::size_t arguments of get and set

Generators == {"fib", "fact"}                             \* test_cpp.cpp
Mappers == {"identity", "negate"}
Combiners == {"plus", "minus", "multiplies", "divides"}   \* <functional>
ReduceFns == {"minus"}
SetValues == {0 - 5}                                      \* test_access_set

(***************************************************************************)
(* The element functions.                                                  *)
(***************************************************************************)
RECURSIVE fib_loop(_, _, _, _)
fib_loop(a, b, i, n) ==
    IF i < n THEN fib_loop(b, a + b, i + 1, n) ELSE b

fib(n) == IF n < 2 THEN n ELSE fib_loop(1, 1, 2, n)

RECURSIVE fact_loop(_, _, _)
fact_loop(result, i, n) ==
    IF i <= n THEN fact_loop(result * i, i + 1, n) ELSE result

fact(n) == IF n < 2 THEN 1 ELSE fact_loop(1, 2, n)


\* a / b on doubles holding integers: exact when b divides a
Exact(fn, a, b) == fn = "divides" => (b # 0 /\ a % (IF b < 0 THEN 0 - b ELSE b) = 0)

Quot(a, b) ==
    LET aa == IF a < 0 THEN 0 - a ELSE a
        bb == IF b < 0 THEN 0 - b ELSE b
        q == aa \div bb
    IN IF (a < 0) = (b < 0) THEN q ELSE 0 - q

std_plus(a, b) == a + b
std_minus(a, b) == a - b
std_multiplies(a, b) == a * b
std_divides(a, b) == Quot(a, b)

Call2(fn, a, b) ==
    CASE fn = "plus" -> std_plus(a, b)
      [] fn = "minus" -> std_minus(a, b)
      [] fn = "multiplies" -> std_multiplies(a, b)
      [] fn = "divides" -> std_divides(a, b)

(***************************************************************************)
(* The frames of the Mandelbrot program before anything runs.              *)
(***************************************************************************)
\* no call of get_count is in progress
Idle ==
    [pc |-> "idle", x0 |-> 0, y0 |-> 0, max_iters |-> 0,
     x |-> 0, y |-> 0, i |-> 0, ret |-> 0]

\* main of mandelbrot_cpp has not been entered
NoMain ==
    [pc |-> "none", image_width |-> 0, image_height |-> 0, max_iters |-> 0,
     view_left |-> 0, view_bottom |-> 0, view_height |-> 0,
     colors |-> <<>>, samples |-> <<>>, calls |-> 0,
     confirmed |-> FALSE, status |-> 0]

\* no PNGImage exists
NoPng == [st |-> "none"]

\* main of perf_cpp before its first test: std::mt19937 gen has produced nothing
NoPerf == [rng |-> 0, obj |-> 0, vals |-> <<>>, calls |-> <<>>, slots |-> <<>>]

(***************************************************************************)
(* mandelbrot::get_count(x0, y0, max_iters), one loop step at a time.      *)
(* The points are integers, on which the double arithmetic of the loop is  *)
(* exact: a step is taken only from x*x + y*y < 4, so no value leaves      *)
(* -(4 + MaxCoord)..(4 + MaxCoord).  i < max_iters holds before ++i, so    *)
(* the unsigned counter does not wrap.                                     *)
(***************************************************************************)
Coords == (0 - MaxCoord)..MaxCoord
Budgets == 0..MaxIters

\* a loop test without the budget
loop_cond_no_budget(k) == (k.x * k.x + k.y * k.y) < 4

\* a loop test that lets i reach max_iters + 1
loop_cond_inclusive(k) == k.i <= k.max_iters /\ (k.x * k.x + k.y * k.y) < 4

\* a loop test with <= 4.0
loop_cond_closed(k) == k.i < k.max_iters /\ (k.x * k.x + k.y * k.y) <= 4

\* while (i < max_iters && (x * x + y * y) < 4.0)
loop_cond(k) == k.i < k.max_iters /\ (k.x * k.x + k.y * k.y) < 4

\* a body that computes y from the x it has just assigned
loop_body_sequential(k) ==
    LET x == k.x * k.x - k.y * k.y + k.x0
        y == 2 * x * k.y + k.y0
    IN [k EXCEPT !.x = x, !.y = y, !.i = k.i + 1]

\* x_temp = x * x - y * y + x0; y = 2 * x * y + y0; x = x_temp; ++i;
loop_body(k) ==
    LET x_temp == k.x * k.x - k.y * k.y + k.x0
        y == 2 * k.x * k.y + k.y0
        x == x_temp
    IN [k EXCEPT !.x = x, !.y = y, !.i = k.i + 1]

\* double x = 0.0; double y = 0.0; unsigned int i = 0;
get_count_entry(x0, y0, max_iters) ==
    [pc |-> "loop", x0 |-> x0, y0 |-> y0, max_iters |-> max_iters,
     x |-> 0, y |-> 0, i |-> 0, ret |-> 0]

get_count_call(x0, y0, max_iters) ==
    /\ kern.pc \in {"idle", "done"}
    /\ kern' = get_count_entry(x0, y0, max_iters)
    /\ UNCHANGED <<lib, mandel, png, perf>>

get_count_step ==
    /\ kern.pc = "loop"
    /\ loop_cond(kern)
    /\ kern' = loop_body(kern)
    /\ UNCHANGED <<lib, mandel, png, perf>>

\* return i;
get_count_return ==
    /\ kern.pc = "loop"
    /\ ~loop_cond(kern)
    /\ kern' = [kern EXCEPT !.pc = "done", !.ret = kern.i]
    /\ UNCHANGED <<lib, mandel, png, perf>>

\* the whole call, as mandel_fn makes it
RECURSIVE get_count_loop(_)
get_count_loop(k) ==
    IF loop_cond(k) THEN get_count_loop(loop_body(k)) ELSE k.i

get_count(x0, y0, max_iters) == get_count_loop(get_count_entry(x0, y0, max_iters))

(***************************************************************************)
(* mandelbrot::create_image: the two closures.  They capture width, scale, *)
(* top, left and max_iters of the frame by reference.  The view is made of *)
(* integers with view_height a multiple of height, so that scale and the   *)
(* coordinates are integers and the double arithmetic is exact.            *)
(***************************************************************************)
view_left == mandel.view_left
view_top == mandel.view_bottom + mandel.view_height

\* double scale = view_height() / height
scale == Quot(mandel.view_height, mandel.image_height)

\* a sampling that counts rows up from the bottom edge
mandel_point_bottom_up(idx) ==
    LET row == idx \div mandel.image_width
        col == idx % mandel.image_width
    IN [x |-> view_left + (col * scale), y |-> mandel.view_bottom + (row * scale)]

\* row = idx / width; col = idx % width; y = top - (row * scale);
\* x = left + (col * scale)
mandel_point(idx) ==
    LET row == idx \div mandel.image_width
        col == idx % mandel.image_width
        y == view_top - (row * scale)
        x == view_left + (col * scale)
    IN [x |-> x, y |-> y]

mandel_fn(idx) ==
    LET p == mandel_point(idx) IN get_count(p.x, p.y, mandel.max_iters)

Color(red, green, blue) == [red |-> red, green |-> green, blue |-> blue]

\* Color(): value-initialised, all channels 0
Black == Color(0, 0, 0)

\* val >> n on an unsigned int
shr(val, n) == val \div (2 ^ n)

\* a colour mapping that takes count 0 for the sentinel
color_fn_zero(val) ==
    IF val = 0 THEN Black
    ELSE Color(shr(val, 16) % 256, shr(val, 8) % 256, val % 256)

color_fn(val) ==
    IF val = mandel.max_iters THEN Black
    ELSE LET red == shr(val, 16) % 256
             green == shr(val, 8) % 256
             blue == val % 256
         IN Color(red, green, blue)

\* the call of a generator or mapper handed to a constructor
CallGen(fn, idx) ==
    CASE fn = "fib" -> fib(idx)
      [] fn = "fact" -> fact(idx)
      [] fn = "mandel_fn" -> mandel_fn(idx)

CallMap(fn, x) ==
    CASE fn = "identity" -> x
      [] fn = "negate" -> 0 - x
      [] fn = "color_fn" -> color_fn(x)

(***************************************************************************)
(* Buffers.  cells is a function from the offsets that have been written   *)
(* to their values: new T[size] leaves a double array uninitialised, so a  *)
(* fresh buffer has no written offset.                                     *)
(***************************************************************************)
NoCells == [i \in {} |-> 0]

Store(cells, off, value) ==
    [j \in (DOMAIN cells) \cup {off} |-> IF j = off THEN value ELSE cells[j]]

UnallocBuf == [st |-> "unalloc", len |-> 0, cells |-> NoCells, frees |-> 0]
NoObj == [st |-> "none", data |-> NULL, size |-> 0, hollow |-> FALSE]

Unused(f) == {k \in DOMAIN f : f[k].st \in {"unalloc", "none"}}
NextId(f) == CHOOSE k \in Unused(f) : \A j \in Unused(f) : k <= j

Live(o) == objs[o].st = "live"
size(o) == objs[o].size
data(o) == objs[o].data

\* the written cells behind a data() pointer; nothing behind nullptr
CellsAt(p) == IF p = NULL THEN NoCells ELSE heap[p].cells

\* Collection(std::size_t size): _data(new T[size]), _size(size)
NewArray(h, b, n) ==
    [h EXCEPT ![b] = [st |-> "live", len |-> n, cells |-> NoCells, frees |-> 0]]

\* delete[] _data
DeleteArray(h, b) ==
    [h EXCEPT ![b] = [st |-> "freed", len |-> 0, cells |-> NoCells,
                      frees |-> @.frees + 1]]

Blank ==
    [op |-> "init", call |-> "", obj |-> 0, u |-> 0, v |-> 0, fn |-> "",
     idx |-> 0, val |-> 0, size |-> 0, outcome |-> "ok", result |-> 0,
     calls |-> 0, reads |-> {}, readsV |-> {}, writes |-> {}, tmpFrees |-> 0]

ValuesOk(cells) == \A i \in DOMAIN cells : cells[i] \in Vals

Init ==
    /\ heap = [b \in Bufs |-> UnallocBuf]
    /\ objs = [o \in Objs |-> NoObj]
    /\ crashed = FALSE
    /\ last = Blank
    /\ kern = Idle
    /\ perf = NoPerf
    /\ mandel = NoMain
    /\ png = NoPng

(***************************************************************************)
(* Collection(size, fn): std::generate over [_data, _data + _size) with    *)
(* the closure fn(idx++).                                                  *)
(***************************************************************************)
\* a generate whose closure increments before the call: fn(++idx)
RECURSIVE generate_preinc(_, _, _, _, _)
generate_preinc(cells, first, end, idx, fn) ==
    IF first = end THEN cells
    ELSE generate_preinc(Store(cells, first, CallGen(fn, idx + 1)),
                         first + 1, end, idx + 1, fn)

RECURSIVE generate(_, _, _, _, _)
generate(cells, first, end, idx, fn) ==
    IF first = end THEN cells
    ELSE generate(Store(cells, first, CallGen(fn, idx)), first + 1, end, idx + 1, fn)

Collection_gen(n, fn) ==
    /\ ~crashed
    /\ UNCHANGED prog
    /\ Unused(objs) # {} /\ Unused(heap) # {}
    /\ \E o \in {NextId(objs)}, b \in {NextId(heap)},
          cells \in {generate(NoCells, 0, n, 0, fn)} :
          /\ ValuesOk(cells)
          /\ heap' = [NewArray(heap, b, n) EXCEPT ![b].cells = cells]
          /\ objs' = [objs EXCEPT ![o] =
                         [st |-> "live", data |-> b, size |-> n, hollow |-> FALSE]]
          /\ last' = [Blank EXCEPT !.op = "gen", !.obj = o, !.fn = fn, !.size = n,
                                   !.writes = DOMAIN cells]
    /\ UNCHANGED crashed

(***************************************************************************)
(* ~Collection()                                                           *)
(***************************************************************************)
Destructor(h, p) == IF p # NULL THEN DeleteArray(h, p) ELSE h

Destroy(o) ==
    /\ ~crashed
    /\ UNCHANGED prog
    /\ Live(o)
    /\ heap' = Destructor(heap, data(o))
    /\ objs' = [objs EXCEPT ![o] = [NoObj EXCEPT !.st = "dead"]]
    /\ last' = [Blank EXCEPT !.op = "destroy", !.obj = o]
    /\ UNCHANGED crashed

(***************************************************************************)
(* Collection(u, fn): std::generate with the closure fn( *u_iter++ ), where *)
(* u_iter starts at u.data().  src is what lies behind u.data().           *)
(***************************************************************************)
\* a map whose closure never advances u_iter: fn( *u_iter )
RECURSIVE generate_map_stuck(_, _, _, _, _, _, _)
generate_map_stuck(cells, first, end, src, u_iter, fn, reads) ==
    IF first = end THEN [cells |-> cells, reads |-> reads]
    ELSE generate_map_stuck(Store(cells, first, CallMap(fn, src[u_iter])),
                            first + 1, end, src, u_iter, fn, reads \cup {u_iter})

RECURSIVE generate_map(_, _, _, _, _, _, _)
generate_map(cells, first, end, src, u_iter, fn, reads) ==
    IF first = end THEN [cells |-> cells, reads |-> reads]
    ELSE generate_map(Store(cells, first, CallMap(fn, src[u_iter])),
                      first + 1, end, src, u_iter + 1, fn, reads \cup {u_iter})

\* the constructor body dereferences u.data(): a fault when it is nullptr
MapFaults(u) == data(u) = NULL /\ size(u) > 0

\* a shallow copy: _data(u._data)
map_data_shallow(u) == data(u)

\* : Collection(u.size()), that is _data(new T[size]): a buffer of its own
map_data(u) == NextId(heap)

Collection_map(u, fn) ==
    /\ ~crashed
    /\ UNCHANGED prog
    /\ Live(u)
    /\ Unused(objs) # {} /\ Unused(heap) # {}
    /\ IF MapFaults(u)
       THEN /\ crashed' = TRUE
            /\ last' = [Blank EXCEPT !.op = "map", !.u = u, !.fn = fn,
                                     !.outcome = "segv"]
            /\ UNCHANGED <<heap, objs>>
       ELSE \E o \in {NextId(objs)}, b \in {map_data(u)}, n \in {size(u)},
               g \in {generate_map(NoCells, 0, size(u), CellsAt(data(u)), 0, fn, {})} :
               /\ ValuesOk(g.cells)
               /\ heap' = [NewArray(heap, b, n) EXCEPT ![b].cells = g.cells]
               /\ objs' = [objs EXCEPT ![o] =
                              [st |-> "live", data |-> b, size |-> n, hollow |-> FALSE]]
               /\ last' = [Blank EXCEPT !.op = "map", !.obj = o, !.u = u, !.fn = fn,
                                        !.size = n, !.reads = g.reads,
                                        !.writes = DOMAIN g.cells]
               /\ UNCHANGED crashed

(***************************************************************************)
(* Collection(u, v, fn): size std::min(u.size(), v.size()), std::generate  *)
(* with the closure fn( *u_iter++, *v_iter++ ).                            *)
(***************************************************************************)
std_min(a, b) == IF b < a THEN b ELSE a

\* a zip whose closure passes the operands in the wrong order
RECURSIVE generate_zip_swapped(_, _, _, _, _, _, _, _, _, _)
generate_zip_swapped(cells, first, end, srcU, u_iter, srcV, v_iter, fn, reads, readsV) ==
    IF first = end THEN [cells |-> cells, reads |-> reads, readsV |-> readsV]
    ELSE generate_zip_swapped(
             Store(cells, first, Call2(fn, srcV[v_iter], srcU[u_iter])),
             first + 1, end, srcU, u_iter + 1, srcV, v_iter + 1, fn,
             reads \cup {u_iter}, readsV \cup {v_iter})

RECURSIVE generate_zip(_, _, _, _, _, _, _, _, _, _)
generate_zip(cells, first, end, srcU, u_iter, srcV, v_iter, fn, reads, readsV) ==
    IF first = end THEN [cells |-> cells, reads |-> reads, readsV |-> readsV]
    ELSE generate_zip(Store(cells, first, Call2(fn, srcU[u_iter], srcV[v_iter])),
                      first + 1, end, srcU, u_iter + 1, srcV, v_iter + 1, fn,
                      reads \cup {u_iter}, readsV \cup {v_iter})

ZipSize(u, v) == std_min(size(u), size(v))

ZipFaults(u, v) == ZipSize(u, v) > 0 /\ (data(u) = NULL \/ data(v) = NULL)

\* every call of the combiner is exact on the modelled values
ZipExact(u, v, fn) ==
    \A i \in 0..(ZipSize(u, v) - 1) :
        Exact(fn, CellsAt(data(u))[i], CellsAt(data(v))[i])

ZipCells(u, v, fn) ==
    generate_zip(NoCells, 0, ZipSize(u, v), CellsAt(data(u)), 0,
                 CellsAt(data(v)), 0, fn, {}, {})

Collection_zip(u, v, fn, call) ==
    /\ ~crashed
    /\ UNCHANGED prog
    /\ Live(u) /\ Live(v)
    /\ Unused(objs) # {} /\ Unused(heap) # {}
    /\ IF ZipFaults(u, v)
       THEN /\ crashed' = TRUE
            /\ last' = [Blank EXCEPT !.op = "zip", !.call = call, !.u = u, !.v = v,
                                     !.fn = fn, !.outcome = "segv"]
            /\ UNCHANGED <<heap, objs>>
       ELSE /\ ZipExact(u, v, fn)
            /\ \E o \in {NextId(objs)}, b \in {NextId(heap)}, n \in {ZipSize(u, v)},
                  g \in {ZipCells(u, v, fn)} :
                  /\ ValuesOk(g.cells)
                  /\ heap' = [NewArray(heap, b, n) EXCEPT ![b].cells = g.cells]
                  /\ objs' = [objs EXCEPT ![o] =
                                 [st |-> "live", data |-> b, size |-> n,
                                  hollow |-> FALSE]]
                  /\ last' = [Blank EXCEPT !.op = "zip", !.call = call, !.obj = o,
                                           !.u = u, !.v = v, !.fn = fn, !.size = n,
                                           !.reads = g.reads, !.readsV = g.readsV,
                                           !.writes = DOMAIN g.cells]
            /\ UNCHANGED crashed

operator_plus(u, v) == Collection_zip(u, v, "plus", "operator+")
operator_minus(u, v) == Collection_zip(u, v, "minus", "operator-")
operator_multiplies(u, v) == Collection_zip(u, v, "multiplies", "operator*")
operator_divides(u, v) == Collection_zip(u, v, "divides", "operator/")

(***************************************************************************)
(* Collection(Collection<T> &&src)                                         *)
(***************************************************************************)
\* a move constructor that leaves src._data as it was
MovedData_kept(src) == data(src)

\* a move constructor that does not take src._data
TakenData_dropped(src) == NULL

\* _data(src._data)
TakenData(src) == data(src)

\* src._data = nullptr
MovedData(src) == NULL

Collection_move(src) ==
    /\ ~crashed
    /\ UNCHANGED prog
    /\ Live(src)
    /\ Unused(objs) # {}
    /\ LET o == NextId(objs)
       IN /\ objs' = [objs EXCEPT
                         ![o] = [st |-> "live", data |-> TakenData(src), size |-> size(src),
                                 hollow |-> data(src) = NULL],
                         ![src].data = MovedData(src),
                         ![src].hollow = TRUE]
          /\ last' = [Blank EXCEPT !.op = "move", !.obj = o, !.u = src,
                                   !.size = size(src)]
    /\ UNCHANGED <<heap, crashed>>

(***************************************************************************)
(* get / set                                                               *)
(***************************************************************************)
assert_true(cond) == IF cond THEN "ok" ELSE "assertion_error"

get_check(o, idx) == assert_true(idx < size(o))
\* a bounds check that is off by one: idx <= _size
set_check_inclusive(o, idx) == assert_true(idx <= size(o))

set_check(o, idx) == assert_true(idx < size(o))

get(o, idx) ==
    /\ ~crashed
    /\ UNCHANGED prog
    /\ Live(o)
    /\ LET chk == get_check(o, idx)
       IN IF chk # "ok"
          THEN /\ last' = [Blank EXCEPT !.op = "get", !.obj = o, !.idx = idx,
                                        !.outcome = chk]
               /\ UNCHANGED crashed
          ELSE IF data(o) = NULL
          THEN /\ last' = [Blank EXCEPT !.op = "get", !.obj = o, !.idx = idx,
                                        !.outcome = "segv"]
               /\ crashed' = TRUE
          ELSE /\ last' = [Blank EXCEPT !.op = "get", !.obj = o, !.idx = idx,
                                        !.result = heap[data(o)].cells[idx],
                                        !.reads = {idx}]
               /\ UNCHANGED crashed
    /\ UNCHANGED <<heap, objs>>

\* a store that ignores the index: _data[0] = value
set_store_first(cells, idx, value) == Store(cells, 0, value)

\* _data[idx] = value
set_store(cells, idx, value) == Store(cells, idx, value)

set(o, idx, value) ==
    /\ ~crashed
    /\ UNCHANGED prog
    /\ Live(o)
    /\ LET chk == set_check(o, idx)
       IN IF chk # "ok"
          THEN /\ last' = [Blank EXCEPT !.op = "set", !.obj = o, !.idx = idx,
                                        !.val = value, !.outcome = chk]
               /\ UNCHANGED <<heap, crashed>>
          ELSE IF data(o) = NULL
          THEN /\ last' = [Blank EXCEPT !.op = "set", !.obj = o, !.idx = idx,
                                        !.val = value, !.outcome = "segv"]
               /\ crashed' = TRUE
               /\ UNCHANGED heap
          ELSE /\ heap' = [heap EXCEPT ![data(o)].cells = set_store(@, idx, value)]
               /\ last' = [Blank EXCEPT !.op = "set", !.obj = o, !.idx = idx,
                                        !.val = value, !.writes = {idx}]
               /\ UNCHANGED crashed
    /\ UNCHANGED objs

(***************************************************************************)
(* reduce: T(0) when empty, else std::accumulate(_data + 1, _data + _size, *)
(* *_data, fn).                                                            *)
(***************************************************************************)
\* an accumulate that calls fn(element, accumulator)
RECURSIVE accumulate_swapped(_, _, _, _, _)
accumulate_swapped(cells, first, end, init, fn) ==
    IF first = end THEN init
    ELSE accumulate_swapped(cells, first + 1, end,
                            [val |-> Call2(fn, cells[first], init.val),
                             calls |-> init.calls + 1,
                             reads |-> init.reads \cup {first}],
                            fn)

RECURSIVE accumulate(_, _, _, _, _)
accumulate(cells, first, end, init, fn) ==
    IF first = end THEN init
    ELSE accumulate(cells, first + 1, end,
                    [val |-> Call2(fn, init.val, cells[first]),
                     calls |-> init.calls + 1,
                     reads |-> init.reads \cup {first}],
                    fn)

\* a reduce that answers the combiner's identity on an empty Collection
reduce_identity(cells, n, fn) ==
    IF n = 0
    THEN [val |-> IF fn = "multiplies" THEN 1 ELSE 0, calls |-> 0, reads |-> {}]
    ELSE accumulate(cells, 1, n, [val |-> cells[0], calls |-> 0, reads |-> {0}], fn)

reduce(cells, n, fn) ==
    IF n = 0 THEN [val |-> 0, calls |-> 0, reads |-> {}]
    ELSE accumulate(cells, 1, n, [val |-> cells[0], calls |-> 0, reads |-> {0}], fn)

ReduceFaults(o) == data(o) = NULL /\ size(o) > 0

Reduce(o, fn, call) ==
    /\ ~crashed
    /\ UNCHANGED prog
    /\ Live(o)
    /\ IF ReduceFaults(o)
       THEN /\ crashed' = TRUE
            /\ last' = [Blank EXCEPT !.op = "reduce", !.call = call, !.obj = o,
                                     !.fn = fn, !.outcome = "segv"]
       ELSE \E r \in {reduce(CellsAt(data(o)), size(o), fn)} :
               /\ last' = [Blank EXCEPT !.op = "reduce", !.call = call, !.obj = o,
                                        !.fn = fn, !.result = r.val,
                                        !.calls = r.calls, !.reads = r.reads]
               /\ UNCHANGED crashed
    /\ UNCHANGED <<heap, objs>>

sum(u) == Reduce(u, "plus", "sum")
prod(u) == Reduce(u, "multiplies", "prod")

(***************************************************************************)
(* dot(u, v) == sum(u * v): the product is a temporary Collection, built,  *)
(* reduced and destroyed within the call.  Its array is returned to the    *)
(* free store before dot returns, so it takes no entry of heap: the call   *)
(* records how often that array was deleted in last.tmpFrees.              *)
(***************************************************************************)
\* a dot that zips with + instead of *
dot_value_plus(u, v) ==
    reduce(ZipCells(u, v, "plus").cells, ZipSize(u, v), "plus")

dot_value(u, v) ==
    reduce(ZipCells(u, v, "multiplies").cells, ZipSize(u, v), "plus")

\* the temporary's array, allocated by the private constructor and then
\* passed through the temporary's destructor
TmpArray(n) ==
    LET tmp == 1
        made == NewArray([k \in {tmp} |-> UnallocBuf], tmp, n)
    IN Destructor(made, tmp)[tmp]

dot(u, v) ==
    /\ ~crashed
    /\ UNCHANGED prog
    /\ Live(u) /\ Live(v)
    /\ IF ZipFaults(u, v)
       THEN /\ crashed' = TRUE
            /\ last' = [Blank EXCEPT !.op = "dot", !.u = u, !.v = v,
                                     !.outcome = "segv"]
       ELSE \E n \in {ZipSize(u, v)}, r \in {dot_value(u, v)} :
               /\ last' = [Blank EXCEPT !.op = "dot", !.u = u, !.v = v,
                                        !.size = n, !.result = r.val,
                                        !.calls = r.calls,
                                        !.tmpFrees = TmpArray(n).frees]
               /\ UNCHANGED crashed
    /\ UNCHANGED <<heap, objs>>

(***************************************************************************)
(* const_iterator: a reference to its Collection and an index.  cbegin()   *)
(* and cend() make one, and == and != read the _data of the two            *)
(* Collections referred to at the time of the comparison.                  *)
(***************************************************************************)
const_iterator(u, offset) == [src |-> u, idx |-> offset]

cbegin(u) == const_iterator(u, 0)
cend(u) == const_iterator(u, size(u))

\* an == that compares the indices only
operator_eq_index(a, b) == a.idx = b.idx

operator_eq(a, b) == data(a.src) = data(b.src) /\ a.idx = b.idx

operator_ne(a, b) == data(a.src) # data(b.src) \/ a.idx # b.idx

\* it == other, it != other
Compare(a, b, call) ==
    /\ ~crashed
    /\ UNCHANGED prog
    /\ Live(a.src) /\ Live(b.src)
    /\ last' = [Blank EXCEPT !.op = "compare", !.call = call,
                             !.u = a.src, !.v = b.src,
                             !.idx = a.idx, !.val = b.idx,
                             !.outcome =
                                 IF call = "operator=="
                                 THEN (IF operator_eq(a, b) THEN "true" ELSE "false")
                                 ELSE (IF operator_ne(a, b) THEN "true" ELSE "false")]
    /\ UNCHANGED <<heap, objs, crashed>>

\* the two cursors a Collection hands out
Cursors(u) == {cbegin(u), cend(u)}

(***************************************************************************)
(* main of mandelbrot_cpp and mandelbrot::create_image.                    *)
(***************************************************************************)
Dims == 0..MaxDim

\* PNGImage(image_width, image_height, image_bit_depth)
PNGImage(image_width, image_height, image_bit_depth) ==
    [st |-> "alive", _width |-> image_width, _height |-> image_height,
     _bit_depth |-> image_bit_depth, _error_code |-> 0,
     _png_ptr |-> NULL, _info_ptr |-> NULL, _rows_ptr |-> NULL,
     _file_ptr |-> NULL,
     file |-> "untouched",    \* ghost: how much of the output file exists
     calls |-> 0,             \* ghost: calls of write so far
     made |-> 0,              \* ghost: resources acquired so far
     files |-> {}, structs |-> {}, infos |-> {}, rows |-> {},  \* ghost: alive
     twice |-> FALSE]         \* ghost: something was released twice

\* main after its arguments are parsed and mandelbrot mandel(view_left,
\* view_bottom, view_height) is constructed
main_parsed(image_width, image_height, max_iters, left, bottom, height) ==
    [NoMain EXCEPT !.pc = "parsed",
                   !.image_width = image_width,
                   !.image_height = image_height,
                   !.max_iters = max_iters,
                   !.view_left = left,
                   !.view_bottom = bottom,
                   !.view_height = height]

\* main before its call of create_image: any arguments, with view_height a
\* multiple of image_height (see scale), and PNGImage png(..., 8)
InitMain ==
    /\ heap = [b \in Bufs |-> UnallocBuf]
    /\ objs = [o \in Objs |-> NoObj]
    /\ crashed = FALSE
    /\ last = Blank
    /\ kern = Idle
    /\ perf = NoPerf
    /\ \E image_width, image_height \in Dims, max_iters \in Budgets,
          left, bottom, height \in Coords :
          /\ image_height # 0 => height % image_height = 0
          /\ mandel = main_parsed(image_width, image_height, max_iters,
                                  left, bottom, height)
          /\ png = PNGImage(image_width, image_height, 8)

\* a scale computed by an integer division, which traps on height == 0
scale_traps_integer == mandel.image_height = 0

\* view_height() / height divides doubles: no trap when height is 0
scale_traps == FALSE

\* width * height
image_size == mandel.image_width * mandel.image_height

\* colors.to_vector()
vector_of(cells, n) == [i \in 1..n |-> cells[i - 1]]

\* std::vector<Color> colors = mandel.create_image(image_width,
\* image_height, max_iters): data (counts) by the generator constructor
\* with mandel_fn, colors by the map constructor with color_fn; both Collections
\* are locals of the call and are gone at its return
create_image ==
    /\ ~crashed
    /\ mandel.pc = "parsed"
    /\ IF scale_traps
       THEN /\ crashed' = TRUE
            /\ mandel' = [mandel EXCEPT !.pc = "fault"]
       ELSE \E n \in {image_size} :
            \E counts \in {generate(NoCells, 0, n, 0, "mandel_fn")} :
            \E g \in {generate_map(NoCells, 0, n, counts, 0, "color_fn", {})} :
               /\ mandel' = [mandel EXCEPT
                                 !.pc = "built",
                                 !.colors = vector_of(g.cells, n),
                                 !.samples = [i \in 1..n |-> mandel_point(i - 1)],
                                 !.calls = Cardinality(DOMAIN counts)]
               /\ UNCHANGED crashed
    /\ UNCHANGED <<heap, objs, last, kern, png, perf>>

\* counts around the channel boundaries: 0x010203 = 66051,
\* 0xFFFFFF = 16777215, 0x01010203 = 16843267
CountSamples ==
    {0, 1, 2, 255, 256, 257, 65535, 65536, 66051, 16777215, 16777216, 16843267}

\* main before create_image for a 1 x 1 image of the point (MaxCoord, 1),
\* which escapes at the first step, with any of the budgets above
InitColor ==
    /\ heap = [b \in Bufs |-> UnallocBuf]
    /\ objs = [o \in Objs |-> NoObj]
    /\ crashed = FALSE
    /\ last = Blank
    /\ kern = Idle
    /\ perf = NoPerf
    /\ \E max_iters \in CountSamples :
          mandel = main_parsed(1, 1, max_iters, MaxCoord, 0, 1)
    /\ png = PNGImage(1, 1, 8)

\* data.map<Color>(color_fn) inside create_image, for a data that holds the
\* single count val
map_colors(val) ==
    /\ ~crashed
    /\ mandel.pc = "parsed"
    /\ \E counts \in {Store(NoCells, 0, val)} :
       \E g \in {generate_map(NoCells, 0, 1, counts, 0, "color_fn", {})} :
          last' = [Blank EXCEPT !.op = "color_fn", !.fn = "color_fn",
                                !.val = val, !.size = 1,
                                !.result = g.cells[0], !.reads = g.reads,
                                !.writes = DOMAIN g.cells]
    /\ UNCHANGED <<heap, objs, crashed, prog>>

(***************************************************************************)
(* The generator constructor once more, with what std::generate does kept  *)
(* as a trace: the arguments passed to fn in the order of the calls, the   *)
(* slots in the order they are assigned, and the numbers drawn from a      *)
(* generator that has state. "random" is the generator of perf_cpp,        *)
(* [&](std::size_t) { return dist(gen); }: it ignores its argument and     *)
(* advances the engine gen of main by one draw per call; vals are the      *)
(* values the engine yields on its next draws.                             *)
(***************************************************************************)
MaxDraws == 4            \* draws from the engine in one run
Draws == {0, 1}          \* values of dist(gen), two of them told apart
TracedGenerators == Generators \cup {"random"}

NoTrace == [cells |-> NoCells, calls |-> <<>>, slots |-> <<>>, used |-> 0]

\* one assignment *first = fn(idx++) of std::generate
traced_assign(t, slot, idx, fn, vals) ==
    [cells |-> Store(t.cells, slot,
                     IF fn = "random" THEN vals[t.used + 1] ELSE CallGen(fn, idx)),
     calls |-> Append(t.calls, idx),
     slots |-> Append(t.slots, slot),
     used |-> IF fn = "random" THEN t.used + 1 ELSE t.used]

\* a loop that fills the buffer from its last slot down
RECURSIVE generate_traced_backwards(_, _, _, _, _, _)
generate_traced_backwards(t, first, end, idx, fn, vals) ==
    IF first = end THEN t
    ELSE generate_traced_backwards(traced_assign(t, end - 1, idx, fn, vals),
                                   first, end - 1, idx + 1, fn, vals)

RECURSIVE generate_traced(_, _, _, _, _, _)
generate_traced(t, first, end, idx, fn, vals) ==
    IF first = end THEN t
    ELSE generate_traced(traced_assign(t, first, idx, fn, vals),
                         first + 1, end, idx + 1, fn, vals)

\* COLL u(size, fn) of run_test
Collection_gen_traced(n, fn) ==
    /\ ~crashed
    /\ Unused(objs) # {} /\ Unused(heap) # {}
    /\ fn = "random" => perf.rng + n <= MaxDraws
    /\ \E o \in {NextId(objs)}, b \in {NextId(heap)},
          vals \in [1..(IF fn = "random" THEN n ELSE 0) -> Draws] :
          \E t \in {generate_traced(NoTrace, 0, n, 0, fn, vals)} :
             /\ ValuesOk(t.cells)
             /\ heap' = [NewArray(heap, b, n) EXCEPT ![b].cells = t.cells]
             /\ objs' = [objs EXCEPT ![o] =
                            [st |-> "live", data |-> b, size |-> n, hollow |-> FALSE]]
             /\ last' = [Blank EXCEPT !.op = "gen", !.call = "traced", !.obj = o,
                                      !.fn = fn, !.size = n,
                                      !.calls = Len(t.calls),
                                      !.writes = DOMAIN t.cells]
             /\ perf' = [rng |-> perf.rng + t.used, obj |-> o, vals |-> vals,
                         calls |-> t.calls, slots |-> t.slots]
    /\ UNCHANGED <<crashed, kern, mandel, png>>

(***************************************************************************)
(* PNGImage::write and the end of main. What fopen, libpng and operator    *)
(* new do is not in the source: a call of write meets at most one failure, *)
(* at the point named by fail.                                             *)
(***************************************************************************)
NO_ERROR == 0
PNG_ALLOC_WRITE_STRUCT_FAIL_ERR == 0 - 1
PNG_ALLOC_INFO_STRUCT_FAIL_ERR == 0 - 2
PNG_ERROR_HANDLING_FAIL_ERR == 0 - 3
PNG_FILE_OPEN_FAIL_ERR == 0 - 4

Failures ==
    {"none",            \* every call succeeds
     "fopen",           \* fopen returns a null pointer
     "write_struct",    \* png_create_write_struct returns a null pointer
     "info_struct",     \* png_create_info_struct returns a null pointer
     "header",          \* png_set_IHDR or png_write_info calls error_handler
     "rows_alloc",      \* new png_bytep[_height] throws
     "row_alloc",       \* new png_byte[...] for a row throws
     "image"}           \* png_write_image or png_write_end calls error_handler

\* what a call leaves: the object, and the exception that leaves the call
Returned(p) == [png |-> p, thrown |-> ""]
Thrown(p, what) == [png |-> p, thrown |-> what]

\* ghost: a resource of one kind (the open FILEs "files", the png_structs
\* "structs", the png_infos "infos", the row buffers "rows") comes to life
\* under an id never used before and is stored in the member ptr, whatever
\* that member held
acquire(p, kind, ptr) ==
    LET id == p.made + 1
    IN [p EXCEPT ![ptr] = id, ![kind] = @ \cup {id}, !.made = id]

\* ghost: the resource the member ptr points to is released; twice records
\* a release of something that is not alive; the member keeps its value
release(p, kind, ptr) ==
    [p EXCEPT ![kind] = @ \ {p[ptr]},
              !.twice = @ \/ p[ptr] \notin p[kind]]

\* png_destroy_write_struct(&_png_ptr, &_info_ptr): nothing when _png_ptr is
\* null, else the info struct (if any) and the write struct are destroyed
png_destroy_write_struct(p) ==
    IF p._png_ptr = NULL THEN p
    ELSE LET q == IF p._info_ptr = NULL THEN p ELSE release(p, "infos", "_info_ptr")
         IN release(q, "structs", "_png_ptr")

cleanup(p, error_code) ==
    LET a == [p EXCEPT !._error_code = error_code]
        b == IF a._file_ptr = NULL THEN a
             ELSE [release(a, "files", "_file_ptr") EXCEPT !._file_ptr = NULL]
        c == IF b._rows_ptr = NULL THEN b
             ELSE [release(b, "rows", "_rows_ptr") EXCEPT !._rows_ptr = NULL]
    IN [png_destroy_write_struct(c) EXCEPT !._png_ptr = NULL, !._info_ptr = NULL]

init_image(p, fail) ==
    IF fail = "write_struct"
    THEN cleanup([p EXCEPT !._png_ptr = NULL], PNG_ALLOC_WRITE_STRUCT_FAIL_ERR)
    ELSE LET q == acquire(p, "structs", "_png_ptr")
         IN IF fail = "info_struct"
            THEN cleanup([q EXCEPT !._info_ptr = NULL], PNG_ALLOC_INFO_STRUCT_FAIL_ERR)
            ELSE acquire(q, "infos", "_info_ptr")

\* fopen(..., "wb") creates or empties the file; the error code read after
\* init_image may be one an earlier call left; png_init_io changes nothing
\* that is modelled
open_png_output_file(p, fail) ==
    IF fail = "fopen"
    THEN cleanup([p EXCEPT !._file_ptr = NULL], PNG_FILE_OPEN_FAIL_ERR)
    ELSE init_image([acquire(p, "files", "_file_ptr") EXCEPT !.file = "empty"], fail)

\* std::bad_alloc is no PNGException: it leaves make_rows, from
\* new png_bytep[_height] with _rows_ptr as it was, from new png_byte[...]
\* of a row with _rows_ptr set
make_rows(p, fail) ==
    IF fail = "header"
    THEN Returned(cleanup(p, PNG_ERROR_HANDLING_FAIL_ERR))
    ELSE LET q == [p EXCEPT !.file = "header"]
         IN IF fail = "rows_alloc"
            THEN Thrown(q, "bad_alloc")
            ELSE IF fail = "row_alloc" /\ q._height > 0
            THEN Thrown(acquire(q, "rows", "_rows_ptr"), "bad_alloc")
            ELSE Returned(acquire(q, "rows", "_rows_ptr"))

build_image(p, colors_size, fail) ==
    IF colors_size # p._width * p._height
    THEN Thrown(p, "assertion_error")
    ELSE LET m == make_rows(p, fail)
         IN IF m.thrown # "" THEN m
            ELSE IF m.png._error_code # NO_ERROR
            THEN Thrown(m.png, "assertion_error")
            ELSE m

\* the catch block does not return: cleanup(NO_ERROR) follows it
write(p, colors_size, fail) ==
    LET o == open_png_output_file([p EXCEPT !.calls = @ + 1], fail)
    IN IF o._error_code # NO_ERROR
       THEN Thrown(o, "assertion_error")
       ELSE LET b == build_image(o, colors_size, fail)
            IN IF b.thrown # "" THEN b
               ELSE IF b.png._error_code # NO_ERROR
               THEN Thrown(b.png, "assertion_error")
               ELSE IF fail = "image"
               THEN Returned(cleanup(cleanup(b.png, PNG_ERROR_HANDLING_FAIL_ERR),
                                     NO_ERROR))
               ELSE Returned(cleanup([b.png EXCEPT !.file = "complete"], NO_ERROR))

\* ~PNGImage
PNGImage_destructor(p) == [cleanup(p, p._error_code) EXCEPT !.st = "destroyed"]

MaxWrites == 3           \* calls of write on one PNGImage
ColorSizes == 0..(MaxDim * MaxDim)     \* colors.size()

\* png.write(filename, colors) by a caller that catches what it throws and
\* then reads png.error_code()
PNGImage_write(colors_size, fail) ==
    /\ ~crashed
    /\ png.st = "alive"
    /\ png.calls < MaxWrites
    /\ \E w \in {write(png, colors_size, fail)} :
          /\ png' = w.png
          /\ last' = [Blank EXCEPT !.op = "write", !.call = fail,
                                   !.size = colors_size,
                                   !.outcome = IF w.thrown = "" THEN "ok" ELSE w.thrown,
                                   !.result = w.png._error_code]
    /\ UNCHANGED <<heap, objs, crashed, kern, mandel, perf>>

\* the PNGImage goes out of scope
PNGImage_destroy ==
    /\ ~crashed
    /\ png.st = "alive"
    /\ png' = PNGImage_destructor(png)
    /\ last' = [Blank EXCEPT !.op = "png_destroy", !.result = png._error_code]
    /\ UNCHANGED <<heap, objs, crashed, kern, mandel, perf>>

\* try { png.write(filename, colors); std::cout << "Successfully created PNG
\* file" } catch (const assertion_error &) {...}; an exception of another
\* type ends the program in std::terminate
main_write(fail) ==
    /\ ~crashed
    /\ mandel.pc = "built"
    /\ \E w \in {write(png, Len(mandel.colors), fail)} :
          /\ png' = w.png
          /\ mandel' = [mandel EXCEPT
                           !.pc = IF w.thrown = "" THEN "written"
                                  ELSE IF w.thrown = "assertion_error" THEN "caught"
                                  ELSE "terminated",
                           !.confirmed = (w.thrown = "")]
          /\ last' = [Blank EXCEPT !.op = "write", !.call = fail,
                                   !.size = Len(mandel.colors),
                                   !.outcome = IF w.thrown = "" THEN "ok" ELSE w.thrown]
    /\ UNCHANGED <<heap, objs, crashed, kern, perf>>

\* return png.error_code(); and then ~PNGImage: cleanup(_error_code)
main_return ==
    /\ ~crashed
    /\ mandel.pc \in {"written", "caught"}
    /\ mandel' = [mandel EXCEPT !.pc = "exited", !.status = png._error_code]
    /\ png' = PNGImage_destructor(png)
    /\ UNCHANGED <<lib, kern, perf>>

Next ==
    \/ \E n \in Sizes, fn \in Generators : Collection_gen(n, fn)
    \/ \E u \in Objs, fn \in Mappers : Collection_map(u, fn)
    \/ \E u, v \in Objs : operator_plus(u, v)
    \/ \E u, v \in Objs : operator_minus(u, v)
    \/ \E u, v \in Objs : operator_multiplies(u, v)
    \/ \E u, v \in Objs : operator_divides(u, v)
    \/ \E src \in Objs : Collection_move(src)
    \/ \E o \in Objs : Destroy(o)
    \/ \E o \in Objs, idx \in Indices : get(o, idx)
    \/ \E o \in Objs, idx \in Indices, value \in SetValues : set(o, idx, value)
    \/ \E o \in Objs, fn \in ReduceFns : Reduce(o, fn, "reduce")
    \/ \E u \in Objs : sum(u)
    \/ \E u \in Objs : prod(u)
    \/ \E u, v \in Objs : dot(u, v)

Spec == Init /\ [][Next]_vars

(***************************************************************************)
(* Parts of the program, each a specification of its own: the operations   *)
(* that make, move and destroy Collections; the folds; dot next to         *)
(* operator* and sum; and element access on the two Collections u and v    *)
(* that main constructs before its tests.                                  *)
(***************************************************************************)
NextOwn ==
    \/ \E n \in Sizes, fn \in Generators : Collection_gen(n, fn)
    \/ \E u \in Objs, fn \in Mappers : Collection_map(u, fn)
    \/ \E u, v \in Objs : operator_plus(u, v)
    \/ \E u, v \in Objs : operator_minus(u, v)
    \/ \E u, v \in Objs : operator_multiplies(u, v)
    \/ \E u, v \in Objs : operator_divides(u, v)
    \/ \E src \in Objs : Collection_move(src)
    \/ \E o \in Objs : Destroy(o)

SpecOwn == Init /\ [][NextOwn]_vars

NextFold ==
    \/ \E n \in Sizes, fn \in Generators : Collection_gen(n, fn)
    \/ \E u, v \in Objs : operator_plus(u, v)
    \/ \E u, v \in Objs : operator_minus(u, v)
    \/ \E u, v \in Objs : operator_multiplies(u, v)
    \/ \E u, v \in Objs : operator_divides(u, v)
    \/ \E src \in Objs : Collection_move(src)
    \/ \E o \in Objs, fn \in ReduceFns : Reduce(o, fn, "reduce")
    \/ \E u \in Objs : sum(u)
    \/ \E u \in Objs : prod(u)

SpecFold == Init /\ [][NextFold]_vars

NextDot ==
    \/ \E n \in Sizes, fn \in Generators : Collection_gen(n, fn)
    \/ \E u, v \in Objs : operator_multiplies(u, v)
    \/ \E src \in Objs : Collection_move(src)
    \/ \E u \in Objs : sum(u)
    \/ \E u, v \in Objs : dot(u, v)

SpecDot == Init /\ [][NextDot]_vars

(* Collection<double> u(n, fib), v(n, fact): objects 1 and 2 built by the  *)
(* generator constructor, with any sizes and either generator.             *)
GenBuf(n, fn) ==
    [st |-> "live", len |-> n, cells |-> generate(NoCells, 0, n, 0, fn),
     frees |-> 0]

InitTwo ==
    /\ crashed = FALSE
    /\ last = Blank
    /\ kern = Idle
    /\ perf = NoPerf
    /\ mandel = NoMain
    /\ png = NoPng
    /\ objs \in {[o \in Objs |->
                    IF o = 1
                    THEN [st |-> "live", data |-> 1, size |-> n1, hollow |-> FALSE]
                    ELSE IF o = 2
                    THEN [st |-> "live", data |-> 2, size |-> n2, hollow |-> FALSE]
                    ELSE NoObj] : n1 \in Sizes, n2 \in Sizes}
    /\ heap \in {[b \in Bufs |->
                    IF b = 1 THEN GenBuf(objs[1].size, f1)
                    ELSE IF b = 2 THEN GenBuf(objs[2].size, f2)
                    ELSE UnallocBuf] : f1 \in Generators, f2 \in Generators}

NextAccess ==
    \/ \E o \in Objs, idx \in Indices : get(o, idx)
    \/ \E o \in Objs, idx \in Indices, value \in SetValues : set(o, idx, value)
    \/ \E o \in Objs, fn \in ReduceFns : Reduce(o, fn, "reduce")
    \/ \E src \in Objs : Collection_move(src)
    \/ \E o \in Objs : Destroy(o)

SpecAccess == InitTwo /\ [][NextAccess]_vars

NextDerive ==
    \/ \E u \in Objs, fn \in Mappers : Collection_map(u, fn)
    \/ \E u, v \in Objs : operator_plus(u, v)
    \/ \E u, v \in Objs : operator_minus(u, v)
    \/ \E u, v \in Objs : operator_multiplies(u, v)
    \/ \E u, v \in Objs : operator_divides(u, v)
    \/ \E o \in Objs, idx \in Indices, value \in SetValues : set(o, idx, value)

SpecDerive == InitTwo /\ [][NextDerive]_vars

NextIter ==
    \/ \E n \in Sizes : Collection_gen(n, "fib")
    \/ \E src \in Objs : Collection_move(src)
    \/ \E u, v \in Objs : \E a \in Cursors(u), b \in Cursors(v) :
          Compare(a, b, "operator==")
    \/ \E u, v \in Objs : \E a \in Cursors(u), b \in Cursors(v) :
          Compare(a, b, "operator!=")

SpecIter == Init /\ [][NextIter]_vars

(* The kernel runs to its return: a frame in the loop takes its next step. *)
NextKernel ==
    \/ \E x0, y0 \in Coords, max_iters \in Budgets : get_count_call(x0, y0, max_iters)
    \/ get_count_step
    \/ get_count_return

SpecKernel ==
    /\ Init
    /\ [][NextKernel]_vars
    /\ WF_vars(get_count_step)
    /\ WF_vars(get_count_return)

NextImage == create_image

SpecImage == InitMain /\ [][NextImage]_vars

NextColor ==
    \/ \E val \in CountSamples : map_colors(val)
    \/ create_image

SpecColor == InitColor /\ [][NextColor]_vars

\* run_test of the benchmark, and the generator constructor with the
\* generators of test_cpp: u and v generated, w = u * v, all three destroyed
NextPerf ==
    \/ \E n \in Sizes, fn \in TracedGenerators : Collection_gen_traced(n, fn)
    \/ \E u, v \in Objs : operator_multiplies(u, v)
    \/ \E o \in Objs : Destroy(o)

SpecPerf == Init /\ [][NextPerf]_vars

\* a PNGImage of any dimensions, just constructed, outside of main
InitPng ==
    /\ heap = [b \in Bufs |-> UnallocBuf]
    /\ objs = [o \in Objs |-> NoObj]
    /\ crashed = FALSE
    /\ last = Blank
    /\ kern = Idle
    /\ perf = NoPerf
    /\ mandel = NoMain
    /\ \E image_width, image_height \in Dims :
          png = PNGImage(image_width, image_height, 8)

NextPng ==
    \/ \E colors_size \in ColorSizes, fail \in Failures :
          PNGImage_write(colors_size, fail)
    \/ PNGImage_destroy

SpecPng == InitPng /\ [][NextPng]_vars

NextSink ==
    \/ create_image
    \/ \E fail \in Failures : main_write(fail)
    \/ main_return

SpecSink == InitMain /\ [][NextSink]_vars


(***************************************************************************)
(* What the claims speak of.                                               *)
(***************************************************************************)
Holds(o) == Live(o) /\ data(o) # NULL /\ heap[data(o)].st = "live"

\* element i as an index-wise reading of the object's array
Elem(o, i) == heap[data(o)].cells[i]

InRange(o) == 0..(size(o) - 1)

\* std::vector<T>(_data, _data + _size)
to_vector(o) == [i \in 1..size(o) |-> CellsAt(data(o))[i - 1]]

\* combiner(...combiner(combiner(s[1], s[2]), s[3])..., s[k])
RECURSIVE FoldLeft(_, _, _)
FoldLeft(s, k, fn) ==
    IF k = 1 THEN s[1] ELSE Call2(fn, FoldLeft(s, k - 1, fn), s[k])

RECURSIVE Sigma(_, _)
Sigma(s, k) == IF k = 0 THEN 0 ELSE Sigma(s, k - 1) + s[k]

RECURSIVE Pi(_, _)
Pi(s, k) == IF k = 1 THEN s[1] ELSE Pi(s, k - 1) * s[k]

(* C1: the generator constructor Collection(size, f) yields a live         *)
(* Collection with size() == size whose get(i) succeeds and equals f(i)    *)
(* for every i in [0, size).                                               *)
C1_GeneratorConstructor ==
    last.op = "gen" =>
        /\ last.outcome = "ok"
        /\ Holds(last.obj)
        /\ size(last.obj) = last.size
        /\ heap[data(last.obj)].len = last.size
        /\ \A i \in 0..(last.size - 1) :
              /\ get_check(last.obj, i) = "ok"
              /\ i \in DOMAIN heap[data(last.obj)].cells
              /\ Elem(last.obj, i) = CallGen(last.fn, i)

C1_Witness ==
    /\ last.op = "gen" /\ last.size = 2 /\ last.fn = "fib"
    /\ Holds(last.obj) /\ Elem(last.obj, 1) = 1

(* C2: the map constructor Collection(u, mapper) yields a Collection of    *)
(* the size of u whose element i is mapper(u.get(i)); with the identity    *)
(* mapper its to_vector() equals that of u.                                *)
C2_MapConstructor ==
    (last.op = "map" /\ last.outcome = "ok") =>
        /\ Live(last.obj) /\ Live(last.u)
        /\ Holds(last.obj)
        /\ size(last.obj) = size(last.u)
        /\ heap[data(last.obj)].len = size(last.u)
        /\ DOMAIN heap[data(last.obj)].cells = InRange(last.u)
        /\ \A i \in InRange(last.u) :
              Elem(last.obj, i) = CallMap(last.fn, Elem(last.u, i))
        /\ last.fn = "identity" => to_vector(last.obj) = to_vector(last.u)

C2_Witness ==
    /\ last.op = "map" /\ last.outcome = "ok" /\ last.fn = "identity"
    /\ size(last.u) = 2
    /\ Elem(last.u, 0) # Elem(last.u, 1)
    /\ to_vector(last.obj) = to_vector(last.u)

(* C3: the zip constructor never fails on a length mismatch: whenever both *)
(* sources hold their buffers it succeeds for any two sizes and yields a   *)
(* Collection of size min(a.size(), b.size()) whose element i is           *)
(* combiner(a.get(i), b.get(i)), reading exactly the first min elements of *)
(* each source; operator + - * / are this zip with the scalar + - * /.     *)
C3_ZipTruncates ==
    last.op = "zip" =>
        LET a == last.u
            b == last.v
            n == IF size(a) <= size(b) THEN size(a) ELSE size(b)
        IN /\ (data(a) # NULL /\ data(b) # NULL) => last.outcome = "ok"
           /\ last.outcome = "ok" =>
                /\ Holds(last.obj)
                /\ size(last.obj) = n
                /\ heap[data(last.obj)].len = n
                /\ DOMAIN heap[data(last.obj)].cells = 0..(n - 1)
                /\ last.reads = 0..(n - 1)
                /\ last.readsV = 0..(n - 1)
                /\ \A i \in 0..(n - 1) :
                      /\ Elem(last.obj, i) = Call2(last.fn, Elem(a, i), Elem(b, i))
                      /\ last.call = "operator+" =>
                            Elem(last.obj, i) = Elem(a, i) + Elem(b, i)
                      /\ last.call = "operator-" =>
                            Elem(last.obj, i) = Elem(a, i) - Elem(b, i)
                      /\ last.call = "operator*" =>
                            Elem(last.obj, i) = Elem(a, i) * Elem(b, i)
                      /\ last.call = "operator/" =>
                            /\ Elem(b, i) # 0
                            /\ Elem(last.obj, i) * Elem(b, i) = Elem(a, i)

C3_Witness ==
    /\ last.op = "zip" /\ last.outcome = "ok" /\ last.call = "operator-"
    /\ size(last.u) = 2 /\ size(last.v) = 1
    /\ size(last.obj) = 1
    /\ Elem(last.obj, 0) # 0

C5_ReduceEmpty ==
    (last.op = "reduce" /\ size(last.obj) = 0) =>
        /\ last.outcome = "ok"
        /\ last.result = 0
        /\ last.calls = 0
        /\ last.reads = {}

C5_Witness ==
    /\ last.op = "reduce" /\ last.call = "prod" /\ size(last.obj) = 0
    /\ last.result = 0

(* C6: get(index) and set(index, value) end with assertion_error exactly   *)
(* when index >= size(), touching no element; a failed set changes no      *)
(* element of any Collection; and no call reads or writes an offset        *)
(* outside [0, size) of the Collection it works on.                        *)
C6_OutOfBounds ==
    /\ [](last.op \in {"get", "set"} =>
            /\ (last.idx >= size(last.obj)) <=> (last.outcome = "assertion_error")
            /\ last.outcome # "ok" => (last.reads = {} /\ last.writes = {})
            /\ last.reads \subseteq InRange(last.obj)
            /\ last.writes \subseteq InRange(last.obj))
    /\ [](last.op = "reduce" => last.reads \subseteq InRange(last.obj))
    /\ [](\A b \in Bufs : DOMAIN heap[b].cells \subseteq 0..(heap[b].len - 1))
    /\ [][(last'.op = "set" /\ last'.outcome = "assertion_error") =>
             (heap' = heap /\ objs' = objs)]_vars

C6_Witness ==
    /\ last.op = "set" /\ last.outcome = "assertion_error"
    /\ Holds(last.obj) /\ size(last.obj) = 1 /\ last.idx = 1
    /\ Elem(last.obj, 0) # last.val

(* C7: a successful set(i, v) makes get(i) == v, keeps every other element *)
(* of the Collection and every other Collection as it was, and keeps       *)
(* size(); and no step of any kind changes the size() of a Collection that *)
(* stays alive.                                                            *)
C7_SetFrame ==
    /\ [][(last'.op = "set" /\ last'.outcome = "ok") =>
             LET o == last'.obj
                 p == data(o)
             IN /\ p # NULL
                /\ objs' = objs
                /\ get_check(o, last'.idx) = "ok"
                /\ heap'[p].cells[last'.idx] = last'.val
                /\ \A j \in InRange(o) \ {last'.idx} :
                      heap'[p].cells[j] = heap[p].cells[j]
                /\ heap'[p].len = heap[p].len
                /\ \A b \in Bufs \ {p} : heap'[b] = heap[b]]_vars
    /\ [][\A o \in Objs :
             (objs[o].st = "live" /\ objs'[o].st = "live") =>
                 objs'[o].size = objs[o].size]_vars

C7_Witness ==
    /\ last.op = "set" /\ last.outcome = "ok" /\ last.idx = 0
    /\ size(last.obj) = 2
    /\ Elem(last.obj, 0) = last.val
    /\ Elem(last.obj, 1) = 1

(* C8: for same-sized u and v, dot(u, v) is the left fold with + of the    *)
(* products u[i] * v[i] (0 when both are empty), and it equals sum(w) for  *)
(* every Collection w that holds those products, as u * v does.            *)
ProductOf(u, v) == [i \in 1..size(u) |-> Elem(u, i - 1) * Elem(v, i - 1)]

C8_DotIsSumOfProducts ==
    (last.op = "dot" /\ last.outcome = "ok" /\ size(last.u) = size(last.v)) =>
        LET n == size(last.u)
        IN /\ last.result = Sigma(ProductOf(last.u, last.v), n)
           /\ \A w \in Objs :
                 (Holds(w) /\ size(w) = n
                     /\ to_vector(w) = ProductOf(last.u, last.v)) =>
                 reduce(CellsAt(data(w)), size(w), "plus").val = last.result

C8_Witness ==
    /\ last.op = "dot" /\ last.outcome = "ok"
    /\ last.u # last.v
    /\ size(last.u) = 2 /\ size(last.v) = 2
    /\ last.result # 0
    /\ \E w \in Objs \ {last.u, last.v} :
          Holds(w) /\ size(w) = 2 /\ to_vector(w) = ProductOf(last.u, last.v)

(* C9: no two live Collections hold the same buffer; no buffer is deleted  *)
(* twice (a moved-from Collection deletes nothing); every live buffer is   *)
(* held by a live Collection, so that once all Collections are destroyed   *)
(* every buffer handed out has been deleted exactly once.                  *)
Holders(b) == {o \in Objs : Live(o) /\ data(o) = b}

C9_SoleOwnership ==
    /\ \A o1, o2 \in Objs :
          (o1 # o2 /\ Live(o1) /\ Live(o2) /\ data(o1) # NULL) => data(o1) # data(o2)
    /\ \A b \in Bufs :
          /\ heap[b].frees <= 1
          /\ heap[b].st = "live" => (heap[b].frees = 0 /\ Cardinality(Holders(b)) = 1)
          /\ heap[b].st = "freed" => (heap[b].frees = 1 /\ Holders(b) = {})
          /\ heap[b].st = "unalloc" => (heap[b].frees = 0 /\ Holders(b) = {})
    /\ (\A o \in Objs : ~Live(o)) =>
          \A b \in Bufs : heap[b].st # "unalloc" => heap[b].frees = 1

DeadObjs == {o \in Objs : objs[o].st = "dead"}
FreedBufs == {b \in Bufs : heap[b].st = "freed"}

C9_Witness ==
    /\ last.op = "destroy"
    /\ \A o \in Objs : ~Live(o)
    /\ Cardinality(FreedBufs) = 2
    /\ Cardinality(DeadObjs) = 3

(* C10 as stated: every live Collection, a moved-from one included, has a  *)
(* non-null buffer of length size().                                       *)
C10_Original ==
    \A o \in Objs :
        Live(o) => (data(o) # NULL /\ heap[data(o)].st = "live"
                        /\ heap[data(o)].len = size(o))

(* C10 amended: a live Collection has a non-null live buffer of length     *)
(* size() unless it has been the source of a move or was move-constructed  *)
(* from a Collection whose buffer was null; those have a null buffer.      *)
C10_BufferUnlessMoved ==
    \A o \in Objs :
        Live(o) =>
            IF objs[o].hollow
            THEN data(o) = NULL
            ELSE /\ data(o) # NULL
                 /\ heap[data(o)].st = "live"
                 /\ heap[data(o)].len = size(o)
                 /\ DOMAIN heap[data(o)].cells = InRange(o)

C10_Witness ==
    /\ last.op = "move"
    /\ Live(last.u) /\ data(last.u) = NULL /\ size(last.u) = 2
    /\ Holds(last.obj) /\ size(last.obj) = 2

(* C11 as stated: cursors compare equal only on the same buffer and index, *)
(* and cursors of two distinct Collections never compare equal at the same *)
(* index, moved-from Collections included.                                 *)
C11_Original ==
    (last.op = "compare" /\ last.call = "operator==") =>
        /\ last.outcome = "true" =>
              (data(last.u) = data(last.v) /\ last.idx = last.val)
        /\ (last.u # last.v /\ last.idx = last.val) => last.outcome = "false"

(* C11 amended: == holds exactly when the two Collections have the same    *)
(* _data pointer and the indices are equal, and != is its negation; so     *)
(* cursors of two distinct Collections that both hold a buffer never       *)
(* compare equal, whatever their contents and sizes, while cursors of two  *)
(* distinct Collections compare equal at the same index exactly when both  *)
(* have a null buffer (moved from).                                        *)
C11_CursorEquality ==
    last.op = "compare" =>
        LET same == data(last.u) = data(last.v) /\ last.idx = last.val
            eq == IF last.call = "operator=="
                  THEN last.outcome = "true" ELSE last.outcome = "false"
        IN /\ eq <=> same
           /\ (last.u # last.v /\ (Holds(last.u) \/ Holds(last.v))) => ~eq
           /\ (last.u # last.v /\ last.idx = last.val) =>
                 (eq <=> (objs[last.u].hollow /\ objs[last.v].hollow))
           /\ (last.u = last.v) => (eq <=> last.idx = last.val)

C11_Witness ==
    /\ last.op = "compare" /\ last.call = "operator==" /\ last.outcome = "false"
    /\ last.u # last.v /\ last.idx = last.val
    /\ Holds(last.u) /\ Holds(last.v)
    /\ size(last.u) = 2 /\ to_vector(last.u) = to_vector(last.v)

(* C12: a call of the kernel reaches its return; the loop takes at most    *)
(* max_iters steps, each raising i by one from below max_iters; the count  *)
(* returned is i, with 0 <= i <= max_iters, and it is below max_iters only *)
(* if x*x + y*y >= 4 held when the loop stopped.                           *)
C12_KernelBounded ==
    /\ [](kern.i \in 0..kern.max_iters)
    /\ [](kern.pc = "done" =>
            /\ kern.ret = kern.i
            /\ kern.ret \in 0..kern.max_iters
            /\ kern.ret < kern.max_iters =>
                  kern.x * kern.x + kern.y * kern.y >= 4)
    /\ [][(kern.pc = "loop" /\ kern'.pc = "loop") =>
             (kern.i < kern.max_iters /\ kern'.i = kern.i + 1)]_vars
    /\ (kern.pc = "loop") ~> (kern.pc = "done")

C12_Witness ==
    /\ kern.pc = "done" /\ kern.ret = 2 /\ kern.max_iters > 2
    /\ kern.x * kern.x + kern.y * kern.y >= 4

(* C13: for the point (2, 0) and every budget of at least 1 the kernel     *)
(* returns 1: the first step is taken from (0, 0) and the test that        *)
(* follows it sees x*x + y*y = 4.                                          *)
C13_PointTwoZero ==
    (kern.x0 = 2 /\ kern.y0 = 0 /\ kern.max_iters >= 1) =>
        /\ (kern.pc = "loop" /\ kern.i = 0) => loop_cond(kern)
        /\ (kern.pc = "loop" /\ kern.i = 1) =>
              (kern.x = 2 /\ kern.y = 0 /\ ~loop_cond(kern))
        /\ kern.pc = "done" => kern.ret = 1

C13_Witness ==
    /\ kern.pc = "done" /\ kern.x0 = 2 /\ kern.y0 = 0
    /\ kern.max_iters >= 2 /\ kern.ret = 1

(* C14: for the point (0, 0) the accumulators stay at (0, 0) and the       *)
(* kernel returns the budget, for every budget from 0 on.                  *)
C14_Origin ==
    (kern.pc # "idle" /\ kern.x0 = 0 /\ kern.y0 = 0) =>
        /\ kern.x = 0 /\ kern.y = 0
        /\ kern.pc = "done" => kern.ret = kern.max_iters

C14_Witness ==
    /\ kern.pc = "done" /\ kern.x0 = 0 /\ kern.y0 = 0
    /\ kern.max_iters >= 2 /\ kern.ret = kern.max_iters

(* C19: a loop step takes the frame from (x, y, i) to                      *)
(* (x*x - y*y + x0, 2*x*y + y0, i + 1), both new values computed from the  *)
(* x and y before the step, and leaves x0, y0 and max_iters alone.         *)
C19_SimultaneousUpdate ==
    [][(kern.pc = "loop" /\ kern'.pc = "loop") =>
          /\ kern'.x = kern.x * kern.x - kern.y * kern.y + kern.x0
          /\ kern'.y = 2 * kern.x * kern.y + kern.y0
          /\ kern'.i = kern.i + 1
          /\ kern'.x0 = kern.x0 /\ kern'.y0 = kern.y0
          /\ kern'.max_iters = kern.max_iters]_vars

\* after the second step from (0, 1): the new y, 1, is 2*0*1 + 1 and not
\* 2*(-1)*1 + 1
C19_Witness ==
    /\ kern.pc = "loop" /\ kern.x0 = 0 /\ kern.y0 = 1 /\ kern.i = 2
    /\ kern.x = 0 - 1 /\ kern.y = 1

(* C15: the image built has width * height_px entries, and entry idx (from *)
(* 0, row-major) is the colour of the count at x = left + col * scale,     *)
(* y = top - row * scale, with row = idx / width, col = idx % width,       *)
(* scale = view_height / height_px and top = bottom + view_height; entry 0 *)
(* samples (left, bottom + view_height).                                   *)
C15_RowMajorSampling ==
    mandel.pc = "built" =>
        LET w == mandel.image_width
            h == mandel.image_height
            top == mandel.view_bottom + mandel.view_height
            s == Quot(mandel.view_height, h)
        IN /\ Len(mandel.colors) = w * h
           /\ Len(mandel.samples) = w * h
           /\ mandel.calls = w * h
           /\ w * h > 0 =>
                 /\ s * h = mandel.view_height
                 /\ mandel.samples[1] = [x |-> mandel.view_left, y |-> top]
           /\ \A row \in 0..(h - 1), col \in 0..(w - 1) :
                 LET idx == row * w + col
                     x == mandel.view_left + col * s
                     y == top - row * s
                 IN /\ idx \div w = row /\ idx % w = col
                    /\ mandel.samples[idx + 1] = [x |-> x, y |-> y]
                    /\ mandel.colors[idx + 1] =
                          color_fn(get_count(x, y, mandel.max_iters))

\* a 2 x 2 image of a view of height 2: pixel 3 is row 1, column 1, one
\* unit right of and one unit below the top-left corner, and the rows differ
C15_Witness ==
    /\ mandel.pc = "built"
    /\ mandel.image_width = 2 /\ mandel.image_height = 2
    /\ mandel.view_height = 2
    /\ mandel.samples[1] = [x |-> mandel.view_left, y |-> mandel.view_bottom + 2]
    /\ mandel.samples[4] = [x |-> mandel.view_left + 1, y |-> mandel.view_bottom + 1]
    /\ mandel.colors[1] # mandel.colors[3]

(* C16: a count equal to max_iters maps to (0, 0, 0) whatever its value,   *)
(* so with max_iters == 0 the pixel is (0, 0, 0) and so is a pixel that    *)
(* escaped at count 1 == max_iters; every other count c maps to            *)
(* red = (c >> 16) & 0xFF, green = (c >> 8) & 0xFF, blue = c & 0xFF, the   *)
(* bits above bit 23 dropped: 0x010203 and 0x01010203 map to (1, 2, 3).    *)
C16_ColorMapping ==
    /\ last.op = "color_fn" =>
          LET c == last.val
              m == mandel.max_iters
              rgb == last.result
          IN /\ c = m => rgb = [red |-> 0, green |-> 0, blue |-> 0]
             /\ c # m =>
                   /\ rgb.red = (c \div 65536) % 256
                   /\ rgb.green = (c \div 256) % 256
                   /\ rgb.blue = c % 256
                   /\ rgb.red * 65536 + rgb.green * 256 + rgb.blue = c % 16777216
             /\ (c \in {66051, 16843267} /\ c # m) =>
                   rgb = [red |-> 1, green |-> 2, blue |-> 3]
             /\ {rgb.red, rgb.green, rgb.blue} \subseteq 0..255
    /\ mandel.pc = "built" =>
          /\ Len(mandel.colors) = 1
          /\ mandel.max_iters \in {0, 1} =>
                mandel.colors[1] = [red |-> 0, green |-> 0, blue |-> 0]
          /\ mandel.max_iters > 1 =>
                mandel.colors[1] = [red |-> 0, green |-> 0, blue |-> 1]

C16_Witness ==
    /\ last.op = "color_fn" /\ last.val = 66051
    /\ mandel.max_iters = 16843267
    /\ last.result = [red |-> 1, green |-> 2, blue |-> 3]

(* C17: with width == 0 or height_px == 0 create_image returns an empty    *)
(* vector without a fault, and mandel_fn is not called.                    *)
C17_EmptyImage ==
    (mandel.pc \in {"built", "fault"}
        /\ (mandel.image_width = 0 \/ mandel.image_height = 0)) =>
        /\ mandel.pc = "built"
        /\ ~crashed
        /\ mandel.colors = <<>>
        /\ mandel.samples = <<>>
        /\ mandel.calls = 0

C17_Witness ==
    /\ mandel.pc = "built" /\ mandel.image_width = 2 /\ mandel.image_height = 0
    /\ mandel.view_height # 0 /\ mandel.colors = <<>>

(***************************************************************************)
(* C20: map and zip are eager. A successful map or zip builds one new      *)
(* Collection in a buffer that was not allocated before, filled with fn of *)
(* the sources' elements as they are at that moment, and leaves every      *)
(* existing Collection and buffer as it was; no two live Collections ever  *)
(* share a buffer, so a later set on one Collection changes the elements   *)
(* of no other, be it the source or the derived one.                       *)
(***************************************************************************)
ElementsIn(h, ob, o) == [i \in 1..ob[o].size |-> h[ob[o].data].cells[i - 1]]

C20_EagerDerivation ==
    /\ [][(last'.op \in {"map", "zip"} /\ last'.outcome = "ok") =>
             /\ objs[last'.obj].st = "none"
             /\ heap[objs'[last'.obj].data].st = "unalloc"
             /\ \A o \in Objs \ {last'.obj} : objs'[o] = objs[o]
             /\ \A b \in Bufs \ {objs'[last'.obj].data} : heap'[b] = heap[b]
             /\ last'.op = "map" =>
                    ElementsIn(heap', objs', last'.obj) =
                        [i \in 1..size(last'.u) |->
                            CallMap(last'.fn, heap[data(last'.u)].cells[i - 1])]
             /\ last'.op = "zip" =>
                    ElementsIn(heap', objs', last'.obj) =
                        [i \in 1..ZipSize(last'.u, last'.v) |->
                            Call2(last'.fn, heap[data(last'.u)].cells[i - 1],
                                  heap[data(last'.v)].cells[i - 1])]]_vars
    /\ [][(last'.op = "set" /\ last'.outcome = "ok") =>
             \A o \in Objs \ {last'.obj} :
                 Live(o) => /\ objs'[o] = objs[o]
                            /\ ElementsIn(heap', objs', o) = ElementsIn(heap, objs, o)]_vars
    /\ [](\A o, q \in Objs :
             (Live(o) /\ Live(q) /\ o # q /\ data(o) # NULL) => data(o) # data(q))

\* w = u.map(negate) of u = fact(2), then u.set(0, -5): u is <<-5, 1>> and w
\* still holds the negated elements of the old u
C20_Witness ==
    /\ last.op = "set" /\ last.outcome = "ok" /\ last.obj = 1 /\ last.idx = 0
    /\ Live(3) /\ size(1) = 2 /\ size(3) = 2
    /\ ElementsIn(heap, objs, 1) = <<0 - 5, 1>>
    /\ ElementsIn(heap, objs, 3) = <<0 - 1, 0 - 1>>

(***************************************************************************)
(* C18: a failure of the sink reaches the caller unchanged. When the       *)
(* program has exited after a call of write that met a failure at the file *)
(* open, at the allocation of an encoder structure, or inside the encoder  *)
(* while it wrote the header or the image rows, the exit status is the     *)
(* non-zero code of that failure; and the exit status is 0, or the         *)
(* confirmation was printed, only if the file was written completely.      *)
(***************************************************************************)
CodeOf(fail) ==
    CASE fail = "fopen" -> PNG_FILE_OPEN_FAIL_ERR
      [] fail = "write_struct" -> PNG_ALLOC_WRITE_STRUCT_FAIL_ERR
      [] fail = "info_struct" -> PNG_ALLOC_INFO_STRUCT_FAIL_ERR
      [] fail \in {"header", "image"} -> PNG_ERROR_HANDLING_FAIL_ERR

C18_SinkFailurePropagated ==
    (mandel.pc \in {"written", "caught", "exited"} /\ last.op = "write") =>
        /\ last.call \in {"fopen", "write_struct", "info_struct", "header", "image"} =>
              /\ mandel.pc # "exited" => png._error_code = CodeOf(last.call)
              /\ mandel.pc = "exited" => mandel.status = CodeOf(last.call)
        /\ (mandel.confirmed \/ (mandel.pc = "exited" /\ mandel.status = 0)) =>
              png.file = "complete"

(***************************************************************************)
(* C21: the generator constructor calls the generator once for each index  *)
(* of [0, size), in the order 0, 1, ..., size-1, and assigns each slot     *)
(* once, in that same order, the result of the call for its own index. A   *)
(* generator with state is advanced exactly size times by one              *)
(* construction, slot i holding its draw number i + 1, and a generator     *)
(* without state leaves the engine alone.                                  *)
(***************************************************************************)
UpTo(n) == [i \in 1..n |-> i - 1]

C21_GeneratorOrder ==
    /\ []((last.op = "gen" /\ last.call = "traced") =>
            /\ perf.obj = last.obj
            /\ last.calls = last.size
            /\ perf.calls = UpTo(last.size)
            /\ perf.slots = UpTo(last.size)
            /\ DOMAIN heap[data(last.obj)].cells = 0..(last.size - 1)
            /\ \A i \in 0..(last.size - 1) :
                  Elem(last.obj, i) = IF last.fn = "random" THEN perf.vals[i + 1]
                                      ELSE CallGen(last.fn, i))
    /\ [][(last'.op = "gen" /\ last'.call = "traced") =>
             perf'.rng = perf.rng + (IF last'.fn = "random" THEN last'.size ELSE 0)]_vars

\* the second Collection of a run_test of size 2: draws 3 and 4 of the engine,
\* the values 1 and 0 in the slots 0 and 1
C21_Witness ==
    /\ last.op = "gen" /\ last.call = "traced" /\ last.fn = "random"
    /\ last.size = 2 /\ perf.rng = 4
    /\ perf.calls = <<0, 1>> /\ perf.vals = <<1, 0>>
    /\ Elem(last.obj, 0) = 1 /\ Elem(last.obj, 1) = 0

(***************************************************************************)
(* C22: whenever write ends by throwing assertion_error, the size of       *)
(* colors differing from width * height included, error_code() is not 0    *)
(* afterwards, so a caller that catches the exception and returns          *)
(* error_code() never reports 0 for a write that threw.                    *)
(***************************************************************************)
C22_ThrownWriteHasCode ==
    (last.op = "write" /\ last.outcome = "assertion_error") =>
        /\ png._error_code # NO_ERROR
        /\ last.result # 0

(***************************************************************************)
(* C23: over any calls of write on one PNGImage and its destruction, no    *)
(* file handle, encoder structure or row buffer is released twice; write   *)
(* never overwrites a member that points to a resource still alive, so     *)
(* whatever is alive is the one its member points to; and after the        *)
(* destruction nothing is alive.                                           *)
(***************************************************************************)
C23_ReleasedExactlyOnce ==
    png.st # "none" =>
        /\ ~png.twice
        /\ png.files \subseteq {png._file_ptr}
        /\ png.structs \subseteq {png._png_ptr}
        /\ png.infos \subseteq {png._info_ptr}
        /\ png.rows \subseteq {png._rows_ptr}
        /\ png.st = "destroyed" =>
              png.files \cup png.structs \cup png.infos \cup png.rows = {}
====
